---- MODULE Spec2Model ----
(***************************************************************************)
(* Model of make_adjustable_noise_mask.py: main(), the prompt loop, the    *)
(* statistics stage, the two playback paths (play_noise_osx and            *)
(* play_and_adjust_volume), the SIGINT handler that raises                 *)
(* KeyboardInterrupt, and the generator child process.                     *)
(*                                                                         *)
(* Floating point values are modelled as exact fractions <<num, den>>.     *)
(* External tools (sox, amixer, PulseAudio, the operator, the signal       *)
(* source) are environment choices.                                        *)
(***************************************************************************)
EXTENDS Integers, Sequences, FiniteSets, TLC

\* ---- bounds ----
MaxRows == 2          \* rows of the statistics table data/data.txt
MaxAmp == 2           \* largest amplitude in a table
MaxInterrupts == 2    \* SIGINTs delivered in one run
MaxPushes == 3        \* saturation of the count of pulse.volume_set calls

\* ---- program constants ----
MaxPercent == 100
ExitOk == 0

\* ---- input sets ----
Platforms == {"darwin", "linux", "other"}
Inputs == {"r", "o", "R", "x"}
Percentages == {0, 50, MaxPercent}
FreqValues == {100, 300}
AmpValues == 0..MaxAmp
ChannelCounts == {1, 2}
NoReading == [volume_percentage |-> 0, is_muted |-> FALSE]

VARIABLES
  pc,              \* position of the main thread
  platform,        \* sys.platform class
  dataFile,        \* os.path.isfile("data/data.txt")
  user_input,      \* last answer read by input()
  recordings,      \* recordings of data/input.wav made in this run
  copies,          \* timestamped copies data/input_<ts>.wav made in this run
  frequency,       \* column 1 of data/data.txt
  amplitude,       \* column 2 of data/data.txt
  mean,            \* amplitude-weighted mean frequency, <<num, den>>
  noise_process,   \* the global: FALSE is None, TRUE is a Popen object
  generator,       \* child process: "not_started", "running", "exited", "terminated"
  popens,          \* subprocess.Popen calls that started a generator
  sigterms,        \* killpg calls that delivered SIGTERM
  killErrors,      \* killpg calls that raised and were logged
  reading,         \* (volume_percentage, is_muted) of the last get_system_volume
  sox_sink_input,  \* 0 is None, otherwise the number of channels of the stream
  sinkVolume,      \* per-channel gain of the sox sink input
  pushCount,       \* pulse.volume_set calls (saturating)
  interrupts,      \* SIGINTs delivered
  interruptedAt,   \* pc at which the first SIGINT arrived
  failure,         \* unhandled exception that ended the run, or "none"
  exitCode         \* process exit status, -1 while running

vars == <<pc, platform, dataFile, user_input, recordings, copies, frequency,
          amplitude, mean, noise_process, generator, popens, sigterms,
          killErrors, reading, sox_sink_input, sinkVolume, pushCount,
          interrupts, interruptedAt, failure, exitCode>>

procVars == <<noise_process, generator, popens, sigterms, killErrors>>
statVars == <<frequency, amplitude, mean>>
volVars == <<reading, sox_sink_input, sinkVolume, pushCount>>
recVars == <<dataFile, user_input, recordings, copies>>
sigVars == <<interrupts, interruptedAt>>
endVars == <<failure, exitCode>>

\* ---- pure helpers ----
RECURSIVE SumSeq(_)
SumSeq(s) == IF s = <<>> THEN 0 ELSE Head(s) + SumSeq(Tail(s))

Mul(a, b) == [i \in 1..Len(a) |-> a[i] * b[i]]

FracEq(x, y) == x[1] * y[2] = y[1] * x[2]

Min(a, b) == IF a < b THEN a ELSE b

\* np.average(a, weights=w): sum(a*w) / sum(w)
AverageSelfWeighted(a, w) == <<SumSeq(Mul(a, a)), SumSeq(a)>>
Average(a, w) == <<SumSeq(Mul(a, w)), SumSeq(w)>>

\* get_new_volume: 0 if is_muted else volume_percentage / 100.0
get_new_volume_IgnoreMute(volume_percentage, is_muted) ==
  <<volume_percentage, 100>>
get_new_volume(volume_percentage, is_muted) ==
  IF is_muted THEN <<0, 1>> ELSE <<volume_percentage, 100>>

\* set_volume: PulseVolumeInfo(new_volume, channels=n) sets every channel
SetVolumeRaw(volume_percentage, is_muted, channels) ==
  [i \in 1..channels |-> <<volume_percentage, 1>>]
SetVolume(volume_percentage, is_muted, channels) ==
  [i \in 1..channels |-> get_new_volume(volume_percentage, is_muted)]

\* get_system_volume: the readings amixer can produce
Readings == [volume_percentage : Percentages, is_muted : BOOLEAN]

Tables == UNION {[1..n -> FreqValues \X AmpValues] : n \in 1..MaxRows}

Init ==
  /\ pc = "start"
  /\ platform \in Platforms
  /\ dataFile \in BOOLEAN
  /\ user_input = ""
  /\ recordings = 0
  /\ copies = 0
  /\ frequency = <<>>
  /\ amplitude = <<>>
  /\ mean = <<0, 1>>
  /\ noise_process = FALSE
  /\ generator = "not_started"
  /\ popens = 0
  /\ sigterms = 0
  /\ killErrors = 0
  /\ reading = NoReading
  /\ sox_sink_input = 0
  /\ sinkVolume = <<>>
  /\ pushCount = 0
  /\ interrupts = 0
  /\ interruptedAt = "none"
  /\ failure = "none"
  /\ exitCode = -1

\* An exception other than KeyboardInterrupt leaves main uncaught and the
\* interpreter exits with status 1.
Unhandled(e) ==
  /\ pc' = "done"
  /\ failure' = e
  /\ exitCode' = 1

\* ---- main: setup, prompt, recording ----
MainStart ==
  /\ pc = "start"
  /\ pc' = IF dataFile THEN "prompt" ELSE "record_new"
  /\ UNCHANGED <<platform, recVars, statVars, procVars, volVars, sigVars, endVars>>

PromptElse ==
  /\ pc = "prompt"
  /\ \E inp \in Inputs :
       /\ user_input' = inp
       /\ pc' = IF inp = "r" THEN "record_r" ELSE "spectrogram"
  /\ UNCHANGED <<platform, dataFile, recordings, copies, statVars, procVars,
                 volVars, sigVars, endVars>>
Prompt ==
  /\ pc = "prompt"
  /\ \E inp \in Inputs :
       /\ user_input' = inp
       /\ pc' = IF inp = "r" THEN "record_r"
                ELSE IF inp = "o" THEN "spectrogram"
                ELSE "prompt"
  /\ UNCHANGED <<platform, dataFile, recordings, copies, statVars, procVars,
                 volVars, sigVars, endVars>>

\* the "r" branch: record_audio_osx on darwin, record_audio on linux
RecordChosen ==
  /\ pc = "record_r"
  /\ recordings' = IF platform \in {"darwin", "linux"} THEN recordings + 1
                   ELSE recordings
  /\ copies' = IF platform = "linux" THEN copies + 1 ELSE copies
  /\ pc' = "spectrogram"
  /\ UNCHANGED <<platform, dataFile, user_input, statVars, procVars, volVars,
                 sigVars, endVars>>

\* no data/data.txt: record_audio() on every platform
RecordFirst ==
  /\ pc = "record_new"
  /\ recordings' = recordings + 1
  /\ copies' = copies + 1
  /\ pc' = "spectrogram"
  /\ UNCHANGED <<platform, dataFile, user_input, statVars, procVars, volVars,
                 sigVars, endVars>>

GenerateSpectrogram ==
  /\ pc = "spectrogram"
  /\ pc' = "fetch_stats"
  /\ UNCHANGED <<platform, recVars, statVars, procVars, volVars, sigVars, endVars>>

FetchAudioStats ==
  /\ pc = "fetch_stats"
  /\ dataFile' = TRUE
  /\ pc' = "loadtxt"
  /\ UNCHANGED <<platform, user_input, recordings, copies, statVars, procVars,
                 volVars, sigVars, endVars>>

\* ---- main: statistics stage ----
\* np.loadtxt("data/data.txt", unpack=True): the table sox wrote
LoadTxt ==
  /\ pc = "loadtxt"
  /\ \E t \in Tables :
       /\ frequency' = [i \in DOMAIN t |-> t[i][1]]
       /\ amplitude' = [i \in DOMAIN t |-> t[i][2]]
  /\ pc' = "stats"
  /\ UNCHANGED <<platform, recVars, mean, procVars, volVars, sigVars, endVars>>

\* without the np.sum(amplitude) == 0 test np.average itself raises
\* ZeroDivisionError on weights that sum to zero
ComputeStatsNoCheck ==
  /\ pc = "stats"
  /\ IF SumSeq(amplitude) = 0
       THEN Unhandled("ZeroDivisionError") /\ UNCHANGED mean
       ELSE /\ mean' = Average(frequency, amplitude)
            /\ pc' = "play"
            /\ UNCHANGED endVars
  /\ UNCHANGED <<platform, recVars, frequency, amplitude, procVars, volVars,
                 sigVars>>
ComputeStats ==
  /\ pc = "stats"
  /\ IF SumSeq(amplitude) = 0
       THEN Unhandled("ValueError") /\ UNCHANGED mean
       ELSE /\ mean' = Average(frequency, amplitude)
            /\ pc' = "play"
            /\ UNCHANGED endVars
  /\ UNCHANGED <<platform, recVars, frequency, amplitude, procVars, volVars,
                 sigVars>>

\* if darwin: play_noise_osx; elif linux: play_and_adjust_volume; else return
Dispatch ==
  /\ pc = "play"
  /\ IF platform = "darwin" THEN pc' = "osx_popen" /\ UNCHANGED endVars
     ELSE IF platform = "linux" THEN pc' = "pav_read" /\ UNCHANGED endVars
     ELSE pc' = "done" /\ exitCode' = ExitOk /\ UNCHANGED failure
  /\ UNCHANGED <<platform, recVars, statVars, procVars, volVars, sigVars>>

\* ---- the generator child process ----
\* os.killpg(os.getpgid(noise_process.pid), signal.SIGTERM) inside
\* try / except Exception: print(...).  A live group receives SIGTERM; a
\* group that is already gone is either still signalable (unreaped) or
\* raises ProcessLookupError, which is logged.
KillpgProbe ==
  \/ /\ generator = "running"
     /\ sigterms' = sigterms
     /\ UNCHANGED <<generator, killErrors>>
  \/ /\ generator # "running"
     /\ killErrors' = killErrors + 1
     /\ UNCHANGED <<generator, sigterms>>
Killpg ==
  \/ /\ generator = "running"
     /\ generator' = "terminated"
     /\ sigterms' = sigterms + 1
     /\ UNCHANGED killErrors
  \/ /\ generator # "running"
     /\ sigterms' = sigterms + 1
     /\ UNCHANGED <<generator, killErrors>>
  \/ /\ generator # "running"
     /\ killErrors' = killErrors + 1
     /\ UNCHANGED <<generator, sigterms>>

\* if noise_process: try: killpg ... except Exception: print
KillIfStarted ==
  IF noise_process THEN Killpg ELSE UNCHANGED <<generator, sigterms, killErrors>>

\* the generator ends on its own (sox exits or is killed from outside)
GeneratorExits ==
  /\ generator = "running"
  /\ pc # "done"
  /\ generator' = "exited"
  /\ UNCHANGED <<pc, platform, recVars, statVars, noise_process, popens,
                 sigterms, killErrors, volVars, sigVars, endVars>>

\* ---- play_noise_osx ----
OsxPopen ==
  /\ pc = "osx_popen"
  /\ noise_process' = TRUE
  /\ generator' = "running"
  /\ popens' = popens + 1
  /\ pc' = "osx_wait"
  /\ UNCHANGED <<platform, recVars, statVars, sigterms, killErrors, volVars,
                 sigVars, endVars>>

\* noise_process.wait() returns, play_noise_osx and main return
OsxWaitReturns ==
  /\ pc = "osx_wait"
  /\ generator # "running"
  /\ pc' = "done"
  /\ exitCode' = ExitOk
  /\ UNCHANGED <<platform, recVars, statVars, procVars, volVars, sigVars, failure>>

\* except KeyboardInterrupt: killpg; raise
OsxExcept ==
  /\ pc = "osx_except"
  /\ Killpg
  /\ pc' = "main_except"
  /\ UNCHANGED <<platform, recVars, statVars, noise_process, popens, volVars,
                 sigVars, endVars>>

\* ---- play_and_adjust_volume ----
\* the sox stream is gone from PulseAudio once the generator this run
\* started is no longer running; pulse.volume_set then raises
StreamGone == noise_process /\ generator # "running"

\* volume_percentage, is_muted = get_system_volume(); amixer output without
\* "[" or without a number makes the parse raise
PavRead ==
  /\ pc = "pav_read"
  /\ \/ \E r \in Readings :
          /\ reading' = r
          /\ pc' = "pav_find"
          /\ UNCHANGED endVars
     \/ Unhandled("IndexError") /\ UNCHANGED reading
  /\ UNCHANGED <<platform, recVars, statVars, procVars, sox_sink_input,
                 sinkVolume, pushCount, sigVars>>

\* first search of pulse.sink_input_list() for "ALSA plug-in [sox]"
PavFind ==
  /\ pc = "pav_find"
  /\ \E found \in ChannelCounts \cup {0} :
       /\ sox_sink_input' = found
       /\ sinkVolume' = [i \in 1..found |-> <<1, 1>>]
       /\ pc' = IF found # 0 THEN "pav_initpush" ELSE "pav_popen"
  /\ UNCHANGED <<platform, recVars, statVars, procVars, reading, pushCount,
                 sigVars, endVars>>

\* noise_process = subprocess.Popen(command, shell=True, preexec_fn=os.setsid)
PavPopenLocal ==
  /\ pc = "pav_popen"
  /\ generator' = "running"
  /\ popens' = popens + 1
  /\ pc' = "pav_find2"
  /\ UNCHANGED <<platform, recVars, statVars, noise_process, sigterms,
                 killErrors, volVars, sigVars, endVars>>
PavPopen ==
  /\ pc = "pav_popen"
  /\ noise_process' = TRUE
  /\ generator' = "running"
  /\ popens' = popens + 1
  /\ pc' = "pav_find2"
  /\ UNCHANGED <<platform, recVars, statVars, sigterms, killErrors, volVars,
                 sigVars, endVars>>

\* second search after time.sleep(0.2); not found: print and return, and
\* main returns after it
PavFind2 ==
  /\ pc = "pav_find2"
  /\ \/ \E found \in ChannelCounts :
          /\ generator = "running"
          /\ sox_sink_input' = found
          /\ sinkVolume' = [i \in 1..found |-> <<1, 1>>]
          /\ pc' = "pav_initpush"
          /\ UNCHANGED endVars
     \/ /\ pc' = "done"
        /\ exitCode' = ExitOk
        /\ UNCHANGED <<sox_sink_input, sinkVolume, failure>>
  /\ UNCHANGED <<platform, recVars, statVars, procVars, reading, pushCount,
                 sigVars>>

\* set_volume(volume_percentage, is_muted, pulse, sox_sink_input) before the loop
PavInitPush ==
  /\ pc = "pav_initpush"
  /\ IF StreamGone
       THEN Unhandled("PulseOperationFailed") /\ UNCHANGED <<sinkVolume, pushCount>>
       ELSE /\ sinkVolume' = SetVolume(reading.volume_percentage,
                                       reading.is_muted, sox_sink_input)
            /\ pushCount' = Min(pushCount + 1, MaxPushes)
            /\ pc' = "poll_read"
            /\ UNCHANGED endVars
  /\ UNCHANGED <<platform, recVars, statVars, procVars, reading,
                 sox_sink_input, sigVars>>

\* while True: volume_percentage, is_muted = get_system_volume()
PollRead ==
  /\ pc = "poll_read"
  /\ \/ \E r \in Readings :
          /\ reading' = r
          /\ pc' = "poll_push"
          /\ UNCHANGED endVars
     \/ Unhandled("IndexError") /\ UNCHANGED reading
  /\ UNCHANGED <<platform, recVars, statVars, procVars, sox_sink_input,
                 sinkVolume, pushCount, sigVars>>

\* set_volume(volume_percentage, is_muted, pulse, sox_sink_input) in the loop
PollPushSkipZero ==
  /\ pc = "poll_push"
  /\ IF StreamGone
       THEN Unhandled("PulseOperationFailed") /\ UNCHANGED <<sinkVolume, pushCount>>
       ELSE /\ IF get_new_volume(reading.volume_percentage, reading.is_muted)[1] = 0
                 THEN UNCHANGED <<sinkVolume, pushCount>>
                 ELSE /\ sinkVolume' = SetVolume(reading.volume_percentage,
                                                 reading.is_muted, sox_sink_input)
                      /\ pushCount' = Min(pushCount + 1, MaxPushes)
            /\ pc' = "poll_sleep"
            /\ UNCHANGED endVars
  /\ UNCHANGED <<platform, recVars, statVars, procVars, reading,
                 sox_sink_input, sigVars>>
PollPush ==
  /\ pc = "poll_push"
  /\ IF StreamGone
       THEN Unhandled("PulseOperationFailed") /\ UNCHANGED <<sinkVolume, pushCount>>
       ELSE /\ sinkVolume' = SetVolume(reading.volume_percentage,
                                       reading.is_muted, sox_sink_input)
            /\ pushCount' = Min(pushCount + 1, MaxPushes)
            /\ pc' = "poll_sleep"
            /\ UNCHANGED endVars
  /\ UNCHANGED <<platform, recVars, statVars, procVars, reading,
                 sox_sink_input, sigVars>>

\* time.sleep(0.5)
PollSleep ==
  /\ pc = "poll_sleep"
  /\ pc' = "poll_read"
  /\ UNCHANGED <<platform, recVars, statVars, procVars, volVars, sigVars, endVars>>

\* except KeyboardInterrupt: print; if noise_process: killpg; raise
PavExcept ==
  /\ pc = "pav_except"
  /\ KillIfStarted
  /\ pc' = "main_except"
  /\ UNCHANGED <<platform, recVars, statVars, noise_process, popens, volVars,
                 sigVars, endVars>>

\* ---- main: except KeyboardInterrupt ----
\* print; if noise_process: killpg (fallback); sys.exit(0)
MainExceptExitOne ==
  /\ pc = "main_except"
  /\ KillIfStarted
  /\ pc' = "done"
  /\ exitCode' = 1
  /\ UNCHANGED <<platform, recVars, statVars, noise_process, popens, volVars,
                 sigVars, failure>>
MainExcept ==
  /\ pc = "main_except"
  /\ KillIfStarted
  /\ pc' = "done"
  /\ exitCode' = ExitOk
  /\ UNCHANGED <<platform, recVars, statVars, noise_process, popens, volVars,
                 sigVars, failure>>

\* ---- SIGINT ----
PollPcs == {"poll_read", "poll_push", "poll_sleep"}

\* signal_handler raises KeyboardInterrupt in the main thread; the innermost
\* enclosing "except KeyboardInterrupt" takes it: the loop's handler inside
\* the polling loop, play_noise_osx's handler inside wait(), main's handler
\* everywhere else in main's try, nobody inside main's handler (the
\* interpreter then dies of the interrupt, status 130).
Interrupt ==
  /\ pc # "done"
  /\ interrupts < MaxInterrupts
  /\ interrupts' = interrupts + 1
  /\ interruptedAt' = IF interrupts = 0 THEN pc ELSE interruptedAt
  /\ IF pc \in PollPcs THEN pc' = "pav_except" /\ UNCHANGED endVars
     ELSE IF pc = "osx_wait" THEN pc' = "osx_except" /\ UNCHANGED endVars
     ELSE IF pc = "main_except"
       THEN pc' = "done" /\ failure' = "KeyboardInterrupt" /\ exitCode' = 130
     ELSE pc' = "main_except" /\ UNCHANGED endVars
  /\ UNCHANGED <<platform, recVars, statVars, procVars, volVars>>

Next ==
  \/ MainStart
  \/ Prompt
  \/ RecordChosen
  \/ RecordFirst
  \/ GenerateSpectrogram
  \/ FetchAudioStats
  \/ LoadTxt
  \/ ComputeStats
  \/ Dispatch
  \/ GeneratorExits
  \/ OsxPopen
  \/ OsxWaitReturns
  \/ OsxExcept
  \/ PavRead
  \/ PavFind
  \/ PavPopen
  \/ PavFind2
  \/ PavInitPush
  \/ PollRead
  \/ PollPush
  \/ PollSleep
  \/ PavExcept
  \/ MainExcept
  \/ Interrupt

Spec == Init /\ [][Next]_vars

TypeOK ==
  /\ platform \in Platforms
  /\ generator \in {"not_started", "running", "exited", "terminated"}
  /\ exitCode \in {-1, ExitOk, 1, 130}
  /\ interrupts \in 0..MaxInterrupts

\* ---- get_new_volume applied to every (percentage, mute) pair ----
InitGain ==
  /\ pc = "gain_call"
  /\ platform = "linux"
  /\ dataFile = FALSE
  /\ user_input = ""
  /\ recordings = 0
  /\ copies = 0
  /\ frequency = <<>>
  /\ amplitude = <<>>
  /\ mean = <<0, 1>>
  /\ noise_process = FALSE
  /\ generator = "not_started"
  /\ popens = 0
  /\ sigterms = 0
  /\ killErrors = 0
  /\ reading \in [volume_percentage : 0..MaxPercent, is_muted : BOOLEAN]
  /\ sox_sink_input = 1
  /\ sinkVolume = <<>>
  /\ pushCount = 0
  /\ interrupts = 0
  /\ interruptedAt = "none"
  /\ failure = "none"
  /\ exitCode = -1

GainCall ==
  /\ pc = "gain_call"
  /\ sinkVolume' = <<get_new_volume(reading.volume_percentage, reading.is_muted)>>
  /\ pc' = "gain_done"
  /\ UNCHANGED <<platform, recVars, statVars, procVars, reading,
                 sox_sink_input, pushCount, sigVars, endVars>>

NextGain == GainCall

SpecGain == InitGain /\ [][NextGain]_vars

\* ---- properties ----
Exited == pc = "done"
Conversion(r) == IF r.is_muted THEN <<0, 1>> ELSE <<r.volume_percentage, 100>>
InUnit(g) == g[2] > 0 /\ 0 <= g[1] /\ g[1] <= g[2]
Uniform(s) == s # <<>> /\ s[1] # 0 /\ \A i \in DOMAIN s : s[i] = s[1]

\* C1: a run that received its one interrupt inside the polling loop of
\* play_and_adjust_volume, and that had started a generator, ends with the
\* generator not running: its process group was sent SIGTERM (or the
\* generator had already exited by itself).
C1_InterruptTerminatesGenerator ==
  (Exited /\ interruptedAt \in PollPcs /\ interrupts = 1 /\ popens > 0)
    => /\ generator # "running"
       /\ (sigterms >= 1 \/ generator = "exited")

C1_Witness ==
  /\ Exited
  /\ interruptedAt \in PollPcs
  /\ interrupts = 1
  /\ popens = 1
  /\ generator = "terminated"
  /\ sigterms >= 1

\* C2: get_new_volume returns exactly 0 when muted, whatever the percentage,
\* and exactly percentage/100 when not muted, for every percentage 0..100
\* (100 gives 1.0, 50 gives 0.5).
C2_GainConversion ==
  pc = "gain_done" =>
    LET g == sinkVolume[1]
        p == reading.volume_percentage
    IN /\ g[2] # 0
       /\ reading.is_muted => g[1] = 0
       /\ ~reading.is_muted => g[1] * 100 = p * g[2]
       /\ (~reading.is_muted /\ p = 100) => FracEq(g, <<1, 1>>)
       /\ (~reading.is_muted /\ p = 50) => FracEq(g, <<1, 2>>)

C2_Witness ==
  /\ pc = "gain_done"
  /\ reading.is_muted
  /\ reading.volume_percentage = 50
  /\ sinkVolume[1][1] = 0

\* C3: a run that received one interrupt exits with code 0, also when
\* killpg raised and was logged; a run ended by an unhandled exception does
\* not exit with code 0.
C3_ExitCodes ==
  Exited =>
    /\ interrupts = 1 => (exitCode = ExitOk /\ failure = "none")
    /\ failure # "none" => exitCode # ExitOk

C3_Witness ==
  /\ Exited
  /\ interrupts = 1
  /\ killErrors >= 1
  /\ exitCode = ExitOk

\* C4: once a table whose amplitudes sum to zero is loaded, the run never
\* gets past the statistics stage: no generator is ever started, and a run
\* that ends without an interrupt ends with the no-signal ValueError.
C4_NoSignal ==
  (amplitude # <<>> /\ SumSeq(amplitude) = 0) =>
    /\ pc \in {"stats", "main_except", "done"}
    /\ popens = 0
    /\ generator = "not_started"
    /\ (Exited /\ interrupts = 0) => (failure = "ValueError" /\ exitCode # ExitOk)

C4_Witness ==
  /\ Exited
  /\ Len(amplitude) = 2
  /\ SumSeq(amplitude) = 0
  /\ failure = "ValueError"
  /\ popens = 0

PromptStep ==
  /\ pc = "prompt" =>
       /\ pc' \in {"prompt", "record_r", "spectrogram", "main_except"}
       /\ pc' = "prompt" => (user_input' \notin {"r", "o"} /\ recordings' = recordings)
       /\ pc' = "record_r" => (user_input' = "r" /\ recordings' = recordings)
       /\ pc' = "spectrogram" => (user_input' = "o" /\ recordings' = recordings)
  /\ pc' = "spectrogram" => user_input' \in {"", "r", "o"}

\* C5 as stated: with data/data.txt present the prompt repeats until "r" or
\* "o"; "r" records new audio and leaves the prompt, "o" leaves it without
\* recording, anything else records nothing and prompts again.
C5_PromptLoopOriginal ==
  [][/\ PromptStep
     /\ (pc = "record_r" /\ pc' = "spectrogram") => recordings' = recordings + 1
    ]_vars

\* C5 amended: as above, but "r" records new audio only on darwin and linux;
\* on any other platform "r" leaves the prompt without recording.
C5_PromptLoop ==
  [][/\ PromptStep
     /\ (pc = "record_r" /\ pc' = "spectrogram") =>
          recordings' = IF platform \in {"darwin", "linux"}
                          THEN recordings + 1 ELSE recordings
    ]_vars

C5_Witness ==
  /\ pc = "spectrogram"
  /\ user_input = "r"
  /\ platform = "linux"
  /\ recordings = 1

\* C6: play_noise_osx starts the generator exactly once, leaves the blocking
\* wait only when the generator has exited or an interrupt arrives, and a
\* run whose one interrupt arrived in the wait ends with the generator's
\* process group signalled.
C6_OneShotPlayback ==
  [][/\ platform = "darwin" => popens' <= 1
     /\ pc' \in {"osx_wait", "osx_except"} => popens' = 1
     /\ (pc = "osx_wait" /\ pc' # "osx_wait") =>
          \/ pc' = "done" /\ generator # "running" /\ interrupts' = interrupts
          \/ pc' = "osx_except" /\ interrupts' = interrupts + 1
     /\ (pc' = "done" /\ interruptedAt' = "osx_wait" /\ interrupts' = 1) =>
          /\ generator' # "running"
          /\ (sigterms' >= 1 \/ generator' = "exited")
    ]_vars

C6_Witness ==
  /\ Exited
  /\ platform = "darwin"
  /\ interruptedAt = "osx_wait"
  /\ interrupts = 1
  /\ popens = 1
  /\ generator = "terminated"

\* C7: for a table whose amplitudes are all equal and nonzero the weighted
\* mean frequency equals the arithmetic mean of the frequency column.
C7_UniformMean ==
  [][(pc = "stats" /\ pc' = "play" /\ Uniform(amplitude)) =>
       /\ mean'[2] # 0
       /\ mean'[1] * Len(frequency) = SumSeq(frequency) * mean'[2]
    ]_vars

C7_Witness ==
  /\ pc = "play"
  /\ frequency = <<100, 300>>
  /\ amplitude = <<2, 2>>
  /\ FracEq(mean, <<200, 1>>)

\* C8: the program never ends while a generator it started is left running
\* (the lifecycle is not started -> playing/polling -> terminated only).
C8_Lifecycle ==
  (Exited /\ popens > 0) => generator # "running"

\* C9: every gain pushed by set_volume, before the loop and inside it, lies
\* in [0,1] on every channel and is 0 when the reading it was computed from
\* is muted.
C9_PushedGain ==
  [][(pc \in {"pav_initpush", "poll_push"} /\ pc' \in {"poll_read", "poll_sleep"}) =>
       /\ Len(sinkVolume') = sox_sink_input
       /\ \A i \in DOMAIN sinkVolume' :
            /\ InUnit(sinkVolume'[i])
            /\ reading.is_muted => sinkVolume'[i][1] = 0
    ]_vars

C9_Witness ==
  /\ pc = "poll_sleep"
  /\ pushCount >= 2
  /\ reading.is_muted
  /\ reading.volume_percentage = MaxPercent
  /\ sox_sink_input = 2
  /\ sinkVolume[2][1] = 0

\* C10: every iteration of the polling loop leaves on the sink exactly the
\* conversion of that iteration's reading, whatever gain was there before.
C10_LatestReadingWins ==
  [][(pc = "poll_push" /\ pc' = "poll_sleep") =>
       \A i \in DOMAIN sinkVolume' : FracEq(sinkVolume'[i], Conversion(reading))
    ]_vars

C10_Witness ==
  /\ pc = "poll_sleep"
  /\ pushCount >= 3
  /\ reading = [volume_percentage |-> 50, is_muted |-> FALSE]
  /\ FracEq(sinkVolume[1], <<1, 2>>)
====
